---- MODULE Spec2Model ----
(***************************************************************************)
(* A model of the survey service of src/main.py: the two tables (surveys,  *)
(* responses), the seven request handlers, the JSON text stored in the     *)
(* Text columns, and the scoring loop of submit_response.                  *)
(***************************************************************************)
EXTENDS Integers, Sequences, FiniteSets, TLC

(***************************************************************************)
(* Python / JSON values.  A request body is JSON, so every value a handler *)
(* sees is one of: None, a bool, an int, a str (kept as its sequence of    *)
(* one-character strings, since set(str) iterates characters), a list, or  *)
(* a dict with string keys.                                                *)
(***************************************************************************)
None == [t |-> "null"]
Bool(b) == [t |-> "bool", b |-> b]
Int_(n) == [t |-> "int", n |-> n]
Str(cs) == [t |-> "str", s |-> cs]
List(items) == [t |-> "list", items |-> items]
Dict(m) == [t |-> "dict", m |-> m]
EmptyDict == Dict([k \in {} |-> None])

\* Dict keys are strings too (sequences of characters).
Q1 == <<"q", "1">>
Q2 == <<"q", "2">>
KText == <<"t", "e", "x", "t">>
KType == <<"t", "y", "p", "e">>
KOptions == <<"o", "p", "t", "i", "o", "n", "s">>

\* The keys a dict may carry, in the order json.dumps writes them here.
KeyOrder == <<Q1, Q2, KText, KType, KOptions>>

KeysOf(d) == SelectSeq(KeyOrder, LAMBDA k : k \in DOMAIN d.m)

(***************************************************************************)
(* JSON text: the sequence of lexemes json.dumps writes.                   *)
(***************************************************************************)
P(c) == [k |-> "p", c |-> c]
Lit(v) == [k |-> "lit", v |-> v]
Key(s) == [k |-> "key", s |-> s]

RECURSIVE JsonDumps(_)
RECURSIVE DumpItems(_, _)
RECURSIVE DumpMembers(_, _, _)

DumpItems(items, i) ==
  IF i > Len(items) THEN <<>>
  ELSE (IF i > 1 THEN <<P(",")>> ELSE <<>>) \o JsonDumps(items[i]) \o DumpItems(items, i + 1)

DumpMembers(d, ks, i) ==
  IF i > Len(ks) THEN <<>>
  ELSE (IF i > 1 THEN <<P(",")>> ELSE <<>>) \o <<Key(ks[i]), P(":")>>
       \o JsonDumps(d.m[ks[i]]) \o DumpMembers(d, ks, i + 1)

JsonDumps(v) ==
  IF v.t = "list" THEN <<P("[")>> \o DumpItems(v.items, 1) \o <<P("]")>>
  ELSE IF v.t = "dict" THEN <<P("{")>> \o DumpMembers(v, KeysOf(v), 1) \o <<P("}")>>
  ELSE <<Lit(v)>>

\* json.loads: a recursive-descent parse; each step returns the value read
\* and the position after it.
RECURSIVE ParseValue(_, _)
RECURSIVE ParseItems(_, _, _)
RECURSIVE ParseMembers(_, _, _)

ParseItems(toks, i, acc) ==
  IF toks[i] = P("]") THEN [v |-> List(acc), next |-> i + 1]
  ELSE LET j == IF toks[i] = P(",") THEN i + 1 ELSE i
           r == ParseValue(toks, j)
       IN ParseItems(toks, r.next, Append(acc, r.v))

ParseMembers(toks, i, acc) ==
  IF toks[i] = P("}") THEN [v |-> Dict(acc), next |-> i + 1]
  ELSE LET j == IF toks[i] = P(",") THEN i + 1 ELSE i
           name == toks[j].s
           r == ParseValue(toks, j + 2)
       IN ParseMembers(toks, r.next,
            [k \in DOMAIN acc \cup {name} |-> IF k = name THEN r.v ELSE acc[k]])

ParseValue(toks, i) ==
  IF toks[i] = P("[") THEN ParseItems(toks, i + 1, <<>>)
  ELSE IF toks[i] = P("{") THEN ParseMembers(toks, i + 1, [k \in {} |-> None])
  ELSE [v |-> toks[i].v, next |-> i + 1]

JsonLoads(toks) == ParseValue(toks, 1).v

(***************************************************************************)
(* Python semantics used by the scoring loop.                              *)
(***************************************************************************)
IsNum(v) == v.t \in {"int", "bool"}
Num(v) == IF v.t = "bool" THEN (IF v.b THEN 1 ELSE 0) ELSE v.n

\* a == b in Python: bool is an int (True == 1); containers compare by content.
RECURSIVE PyEq(_, _)
PyEq(a, b) ==
  IF IsNum(a) /\ IsNum(b) THEN Num(a) = Num(b)
  ELSE IF a.t # b.t THEN FALSE
  ELSE IF a.t = "list" THEN
         /\ Len(a.items) = Len(b.items)
         /\ \A i \in 1..Len(a.items) : PyEq(a.items[i], b.items[i])
  ELSE IF a.t = "dict" THEN
         /\ DOMAIN a.m = DOMAIN b.m
         /\ \A k \in DOMAIN a.m : PyEq(a.m[k], b.m[k])
  ELSE a = b

Hashable(v) == v.t \notin {"list", "dict"}

\* What iterating v yields, as a set (a str yields its characters, a dict its keys).
Elements(v) ==
  IF v.t = "list" THEN {v.items[i] : i \in 1..Len(v.items)}
  ELSE IF v.t = "str" THEN {Str(<<v.s[i]>>) : i \in 1..Len(v.s)}
  ELSE IF v.t = "dict" THEN {Str(k) : k \in DOMAIN v.m}
  ELSE {}

\* set(v) raises TypeError unless v is iterable and its elements are hashable.
CanSet(v) == v.t \in {"list", "str", "dict"} /\ \A e \in Elements(v) : Hashable(e)

SetEq(A, B) ==
  /\ \A a \in A : \E b \in B : PyEq(a, b)
  /\ \A b \in B : \E a \in A : PyEq(a, b)

Raised == [raised |-> TRUE]
Scored(score, total) == [raised |-> FALSE, score |-> score, total |-> total]

\* One pass of "for k, v in correct.items()" from position i on.
RECURSIVE ScoreLoop(_, _, _, _, _, _)
ScoreLoop(correct, user, ks, i, score, total) ==
  IF i > Len(ks) THEN Scored(score, total)
  ELSE LET k == ks[i]
           v == correct.m[k]
       IN IF user.t # "dict" THEN Raised
          ELSE IF v.t = "list" THEN
            LET got == IF k \in DOMAIN user.m THEN user.m[k] ELSE List(<<>>)
            IN IF ~CanSet(got) \/ ~CanSet(v) THEN Raised
               ELSE ScoreLoop(correct, user, ks, i + 1,
                      IF SetEq(Elements(got), Elements(v)) THEN score + 1 ELSE score,
                      total + 1)
          ELSE
            LET got == IF k \in DOMAIN user.m THEN user.m[k] ELSE None
            IN ScoreLoop(correct, user, ks, i + 1,
                 IF PyEq(got, v) THEN score + 1 ELSE score, total + 1)

\* The scoring block, entered with the decoded answer key.
Score(correct, user) ==
  IF correct.t # "dict" THEN Raised
  ELSE ScoreLoop(correct, user, KeysOf(correct), 1, 0, 0)

(***************************************************************************)
(* The database.                                                           *)
(***************************************************************************)
\* A nullable Text column: NULL or a text.
Null == [null |-> TRUE]
Text(toks) == [null |-> FALSE, text |-> toks]

\* "if column:" on a Text column: not NULL and not the empty string.
Truthy(col) == ~col.null /\ Len(col.text) > 0

\* responses.survey_id is a nullable integer; NULL is kept as 0 (rowids start at 1).
NullId == 0

Max(S) == CHOOSE x \in S : \A y \in S : y <= x

\* SQLite's rowid for an INTEGER PRIMARY KEY without AUTOINCREMENT.
NextId(table) == IF DOMAIN table = {} THEN 1 ELSE Max(DOMAIN table) + 1

RECURSIVE Ascending(_)
Ascending(S) ==
  IF S = {} THEN <<>>
  ELSE LET m == Max(S) IN Append(Ascending(S \ {m}), m)

Insert(table, id, row) == [i \in DOMAIN table \cup {id} |-> IF i = id THEN row ELSE table[i]]
Remove(table, id) == [i \in DOMAIN table \ {id} |-> table[i]]

\* surveys, responses: the two tables, by primary key.  now: the clock read by
\* the timestamp default.  ret: the last HTTP response sent.  sub, del: the
\* progress of a submit_response and of a delete_survey request that run
\* step by step (idle while handlers run one at a time).
VARIABLES surveys, responses, now, ret, sub, del

vars == <<surveys, responses, now, ret, sub, del>>

Response200(op, body) == [op |-> op, status |-> 200, body |-> body]
NotFound(op) == [op |-> op, status |-> 404, body |-> [detail |-> "Survey not found"]]
ServerError(op) == [op |-> op, status |-> 500, body |-> None]

\* "json.loads(column) if column else None": the answer key a SurveyOut carries.
KeyOf(col) == IF Truthy(col) THEN JsonLoads(col.text) ELSE None

Idle == [pc |-> "idle"]

Init ==
  /\ surveys = [i \in {} |-> None]
  /\ responses = [i \in {} |-> None]
  /\ now = 0
  /\ ret = [op |-> "none", status |-> 0, body |-> None]
  /\ sub = Idle
  /\ del = Idle

(***************************************************************************)
(* The handlers, each as one transaction.                                  *)
(***************************************************************************)
SurveyRow(survey) ==
  [title |-> survey.title,
   description |-> survey.description,
   questions |-> JsonDumps(survey.questions),
   correct_answers |-> IF survey.correct_answers # None
                       THEN Text(JsonDumps(survey.correct_answers)) ELSE Null]

\* bool(v) of a decoded value.
PyTruthy(v) ==
  IF v.t = "null" THEN FALSE
  ELSE IF v.t = "bool" THEN v.b
  ELSE IF v.t = "int" THEN v.n # 0
  ELSE IF v.t = "str" THEN Len(v.s) > 0
  ELSE IF v.t = "list" THEN Len(v.items) > 0
  ELSE DOMAIN v.m # {}

\* A create_survey that decodes the stored key and drops it when the decoded
\* value is falsy.
CreateOutFalsy(id, row) ==
  [id |-> id, title |-> row.title, description |-> row.description,
   questions |-> JsonLoads(row.questions),
   correct_answers |-> IF ~row.correct_answers.null
                          /\ PyTruthy(JsonLoads(row.correct_answers.text))
                       THEN JsonLoads(row.correct_answers.text) ELSE None]

\* The SurveyOut create_survey builds from the refreshed row.
CreateOut(id, row) ==
  [id |-> id, title |-> row.title, description |-> row.description,
   questions |-> JsonLoads(row.questions),
   correct_answers |-> KeyOf(row.correct_answers)]

create_survey(survey) ==
  LET id == NextId(surveys) IN
  /\ surveys' = Insert(surveys, id, SurveyRow(survey))
  /\ ret' = Response200("create_survey", CreateOut(id, surveys'[id]))
  /\ UNCHANGED <<responses, now, sub, del>>

ListOut(id, row) ==
  [id |-> id, title |-> row.title, description |-> row.description,
   questions |-> JsonLoads(row.questions),
   correct_answers |-> KeyOf(row.correct_answers)]

list_surveys ==
  /\ ret' = Response200("list_surveys",
              [i \in 1..Cardinality(DOMAIN surveys) |->
                 LET id == Ascending(DOMAIN surveys)[i] IN ListOut(id, surveys[id])])
  /\ UNCHANGED <<surveys, responses, now, sub, del>>

\* The SurveyOut get_survey builds from the row it found.
GetOut(id, row) ==
  [id |-> id, title |-> row.title, description |-> row.description,
   questions |-> JsonLoads(row.questions),
   correct_answers |-> KeyOf(row.correct_answers)]

get_survey(survey_id) ==
  /\ ret' = IF survey_id \notin DOMAIN surveys THEN NotFound("get_survey")
            ELSE Response200("get_survey", GetOut(survey_id, surveys[survey_id]))
  /\ UNCHANGED <<surveys, responses, now, sub, del>>

ResponseRow(survey_id, response, timestamp) ==
  [survey_id |-> survey_id,
   answers |-> JsonDumps(response.answers),
   timestamp |-> timestamp,
   student_name |-> response.student_name]

\* Lines 150-175: the score of the submitted answers against the survey row
\* as read back after the commit, and the response built from it.
ScoreOf(row, answers) ==
  IF Truthy(row.correct_answers)
  THEN LET r == Score(JsonLoads(row.correct_answers.text), answers)
       IN IF r.raised THEN r ELSE Scored(Int_(r.score), Int_(r.total))
  ELSE Scored(None, None)

SubmitReply(id, row, scored) ==
  IF scored.raised THEN ServerError("submit_response")
  ELSE Response200("submit_response",
         [id |-> id, survey_id |-> row.survey_id, answers |-> JsonLoads(row.answers),
          timestamp |-> row.timestamp, student_name |-> row.student_name,
          score |-> scored.score, total |-> scored.total])

\* A submit_response without the lookup and its 404.
submit_response_unchecked(survey_id, response) ==
  LET id == NextId(responses)
      row == ResponseRow(survey_id, response, now)
  IN /\ responses' = Insert(responses, id, row)
     /\ now' = now + 1
     /\ ret' = IF survey_id \in DOMAIN surveys
               THEN SubmitReply(id, row, ScoreOf(surveys[survey_id], response.answers))
               ELSE NotFound("submit_response")
     /\ UNCHANGED <<surveys, sub, del>>

submit_response(survey_id, response) ==
  IF survey_id \notin DOMAIN surveys
  THEN /\ ret' = NotFound("submit_response")
       /\ UNCHANGED <<surveys, responses, now, sub, del>>
  ELSE LET id == NextId(responses)
           row == ResponseRow(survey_id, response, now)
       IN /\ responses' = Insert(responses, id, row)
          /\ now' = now + 1
          /\ ret' = SubmitReply(id, row, ScoreOf(surveys[survey_id], response.answers))
          /\ UNCHANGED <<surveys, sub, del>>

\* The relationship has no delete cascade: the unit of work de-associates the
\* children it loaded (survey_id := NULL) and deletes the parent row.
Deassociate(table, children) ==
  [i \in DOMAIN table |->
     IF i \in children THEN [table[i] EXCEPT !.survey_id = NullId] ELSE table[i]]

ChildrenOf(survey_id) == {i \in DOMAIN responses : responses[i].survey_id = survey_id}

delete_survey(survey_id) ==
  IF survey_id \notin DOMAIN surveys
  THEN /\ ret' = NotFound("delete_survey")
       /\ UNCHANGED <<surveys, responses, now, sub, del>>
  ELSE /\ responses' = Deassociate(responses, ChildrenOf(survey_id))
       /\ surveys' = Remove(surveys, survey_id)
       /\ ret' = Response200("delete_survey", [detail |-> "Survey deleted"])
       /\ UNCHANGED <<now, sub, del>>

\* An update_survey that also stores the payload's correct_answers, as
\* create_survey does.
UpdatedRowWithKey(row, survey_update) ==
  [row EXCEPT !.title = survey_update.title,
              !.description = survey_update.description,
              !.questions = JsonDumps(survey_update.questions),
              !.correct_answers = IF survey_update.correct_answers # None
                                  THEN Text(JsonDumps(survey_update.correct_answers))
                                  ELSE Null]

UpdatedRow(row, survey_update) ==
  [row EXCEPT !.title = survey_update.title,
              !.description = survey_update.description,
              !.questions = JsonDumps(survey_update.questions)]

\* update_survey's SurveyOut is built without correct_answers (default None).
UpdateOut(id, row) ==
  [id |-> id, title |-> row.title, description |-> row.description,
   questions |-> JsonLoads(row.questions), correct_answers |-> None]

update_survey(survey_id, survey_update) ==
  IF survey_id \notin DOMAIN surveys
  THEN /\ ret' = NotFound("update_survey")
       /\ UNCHANGED <<surveys, responses, now, sub, del>>
  ELSE /\ surveys' = [surveys EXCEPT ![survey_id] = UpdatedRow(@, survey_update)]
       /\ ret' = Response200("update_survey", UpdateOut(survey_id, surveys'[survey_id]))
       /\ UNCHANGED <<responses, now, sub, del>>

ResponseOut(id, row) ==
  [id |-> id, survey_id |-> row.survey_id, answers |-> JsonLoads(row.answers),
   timestamp |-> row.timestamp, student_name |-> row.student_name]

list_responses(survey_id) ==
  /\ ret' = Response200("list_responses",
              LET ids == Ascending(ChildrenOf(survey_id))
              IN [i \in 1..Len(ids) |-> ResponseOut(ids[i], responses[ids[i]])])
  /\ UNCHANGED <<surveys, responses, now, sub, del>>

(***************************************************************************)
(* Request bodies.                                                         *)
(***************************************************************************)
MaxSurveys == 1
MaxResponses == 1

S(c) == Str(<<c>>)

Question(text, type, options) ==
  Dict((KText :> text) @@ (KType :> type) @@ (KOptions :> options))

Questions1 == List(<<Question(S("x"), Str(<<"t", "e", "x", "t">>), None)>>)
Questions2 == List(<<Question(S("y"), Str(<<"r", "a", "d", "i", "o">>),
                              List(<<S("a"), S("b")>>)),
                     Question(S("z"), Str(<<"c", "h", "e", "c", "k", "b", "o", "x">>),
                              List(<<S("a"), S("b")>>))>>)

\* Answer keys: absent, empty, one scalar and one multi-select entry, and one
\* whose expected values are null and the empty list.
KeyFull == Dict((Q1 :> S("a")) @@ (Q2 :> List(<<S("a"), S("b")>>)))
KeyNulls == Dict((Q1 :> None) @@ (Q2 :> List(<<>>)))
AnswerKeys == {None, EmptyDict, KeyFull, KeyNulls}

SurveyBodies ==
  {[title |-> S("T"), description |-> None, questions |-> Questions1, correct_answers |-> k]
     : k \in AnswerKeys}
  \cup
  {[title |-> S("U"), description |-> S("d"), questions |-> Questions2, correct_answers |-> k]
     : k \in AnswerKeys}

\* update_survey takes the same schema; its correct_answers is never read.
UpdateBodies ==
  {b \in SurveyBodies : (b.title = S("T")) = (b.correct_answers = None)
                        /\ b.correct_answers \in {None, KeyNulls}}

\* Submitted answers: nothing; both entries of KeyFull, reordered and with a
\* duplicate; a number where KeyFull expects a list.
Answers ==
  {EmptyDict,
   Dict((Q1 :> S("a")) @@ (Q2 :> List(<<S("b"), S("a"), S("a")>>))),
   Dict((Q1 :> S("a")) @@ (Q2 :> Int_(5)))}

ResponseBodies ==
  {[answers |-> a, student_name |-> IF a = EmptyDict THEN None ELSE Str(<<"a", "n", "n">>)] : a \in Answers}

SurveyIds == 1..MaxSurveys

Next ==
  \/ \E survey \in SurveyBodies :
       NextId(surveys) <= MaxSurveys /\ create_survey(survey)
  \/ list_surveys
  \/ \E id \in SurveyIds : get_survey(id)
  \/ \E id \in SurveyIds, response \in ResponseBodies :
       /\ id \in DOMAIN surveys => NextId(responses) <= MaxResponses
       /\ submit_response(id, response)
  \/ \E id \in SurveyIds : delete_survey(id)
  \/ \E id \in SurveyIds, survey \in UpdateBodies : update_survey(id, survey)
  \/ \E id \in SurveyIds : list_responses(id)

Spec == Init /\ [][Next]_vars

(***************************************************************************)
(* Properties.                                                             *)
(***************************************************************************)
\* The row submit_response has just written, and what it held.
LastResponse == responses[Max(DOMAIN responses)]
Submitted == JsonLoads(LastResponse.answers)
AfterSubmit == ret.op = "submit_response" /\ ret.status # 404

\* C1: after a successful delete_survey(id), every response that had been
\* submitted to survey id is gone from the responses table.
C1_DeleteRemovesResponses ==
  [][\A id \in DOMAIN surveys \ DOMAIN surveys' :
       \A i \in DOMAIN responses :
         responses[i].survey_id = id => i \notin DOMAIN responses']_vars

\* C2: update_survey leaves the answer key alone: get_survey shows the same
\* key after it as before, and a submission is scored as before.
C2_UpdateKeepsAnswerKey ==
  [][(ret'.op = "update_survey" /\ ret'.status = 200) =>
       LET id == ret'.body.id IN
       /\ KeyOf(surveys'[id].correct_answers) = KeyOf(surveys[id].correct_answers)
       /\ \A a \in Answers : ScoreOf(surveys'[id], a) = ScoreOf(surveys[id], a)]_vars

\* A survey with both entries of KeyFull has just been updated by a payload
\* that carries another correct_answers.
C2_Witness ==
  /\ ret.op = "update_survey" /\ ret.status = 200
  /\ KeyOf(surveys[ret.body.id].correct_answers) = KeyFull
  /\ ret.body.title = S("U")

\* C3: a submit_response for an id that is no survey's answers 404 and writes
\* nothing: a 404 leaves both tables as they were, a response row is only ever
\* written for a survey that exists, and a submit that writes nothing is a 404.
C3_SubmitNotFoundWritesNothing ==
  [][/\ (ret'.op = "submit_response" /\ ret'.status = 404) =>
          (surveys' = surveys /\ responses' = responses)
     /\ \A i \in DOMAIN responses' \ DOMAIN responses :
          responses'[i].survey_id \in DOMAIN surveys
     /\ (ret'.op = "submit_response" /\ responses' = responses) =>
          ret'.status = 404]_vars

\* A submit_response answered 404 after the survey was created, answered and
\* deleted.
C3_Witness ==
  /\ ret = NotFound("submit_response")
  /\ DOMAIN surveys = {}
  /\ DOMAIN responses # {}

\* C4: with the answer key absent or empty, submit_response returns score
\* and total null; they are integers only when the key has an entry.
C4_NoKeyNoScore ==
  (ret.op = "submit_response" /\ ret.status = 200) =>
    LET key == KeyOf(surveys[ret.body.survey_id].correct_answers)
    IN (key = None \/ key = EmptyDict) <=> (ret.body.score = None /\ ret.body.total = None)

\* C5: an entry of the answer key whose key the submission lacks adds nothing
\* to score: score is at most the number of entries the submission has a
\* value for.
C5_MissingKeyNoMatch ==
  (ret.op = "submit_response" /\ ret.status = 200 /\ ret.body.score # None
     /\ Submitted.t = "dict") =>
    LET key == KeyOf(surveys[ret.body.survey_id].correct_answers)
    IN ret.body.score.n <= Cardinality(DOMAIN key.m \cap DOMAIN Submitted.m)

\* The match the specification describes for one entry of the answer key.
SpecMatch(key, user, k) ==
  IF key.m[k].t = "list"
  THEN LET got == IF k \in DOMAIN user.m THEN user.m[k] ELSE List(<<>>)
       IN /\ got.t = "list"
          /\ {got.items[i] : i \in 1..Len(got.items)}
               = {key.m[k].items[i] : i \in 1..Len(key.m[k].items)}
  ELSE k \in DOMAIN user.m /\ user.m[k] = key.m[k]

\* C6: for a non-empty answer key and a submitted mapping, submit_response
\* returns total = the number of entries and score = the number of entries
\* that match (a list as the same set of elements, a scalar exactly).  Stated
\* for the submissions that answer every entry of the key, so that C5's
\* missing keys play no part.
C6_ScoreCountsMatches ==
  AfterSubmit =>
    LET key == KeyOf(surveys[LastResponse.survey_id].correct_answers)
    IN (key.t = "dict" /\ DOMAIN key.m # {} /\ Submitted.t = "dict"
          /\ DOMAIN key.m \subseteq DOMAIN Submitted.m) =>
         /\ ret.status = 200
         /\ ret.body.total = Int_(Cardinality(DOMAIN key.m))
         /\ ret.body.score = Int_(Cardinality({k \in DOMAIN key.m : SpecMatch(key, Submitted, k)}))

\* C7: a submit_response that fails has added no response row.
C7_FailedSubmitWritesNothing ==
  [][(ret'.op = "submit_response" /\ ret'.status # 200) => responses' = responses]_vars

\* C8: right after create_survey, get_survey of the new id returns what
\* create_survey returned, and no handler but update_survey and delete_survey
\* touches the row get_survey reads.
C8_CreateGetRoundTrip ==
  [][/\ ret'.op = "create_survey" =>
          GetOut(ret'.body.id, surveys'[ret'.body.id]) = ret'.body
     /\ ret'.op \notin {"update_survey", "delete_survey"} =>
          \A id \in DOMAIN surveys :
            id \in DOMAIN surveys' /\ surveys'[id] = surveys[id]]_vars

\* create_survey has just returned a survey whose answer key is the empty
\* mapping.
C8_Witness ==
  /\ ret.op = "create_survey"
  /\ ret.body.correct_answers = EmptyDict
  /\ ret.body.id \in DOMAIN surveys

\* C9: what update_survey returns is what get_survey returns right after it,
\* the answer key included.
C9_UpdateReturnsSurvey ==
  (ret.op = "update_survey" /\ ret.status = 200) =>
    ret.body = GetOut(ret.body.id, surveys[ret.body.id])

(***************************************************************************)
(* One submit_response and one delete_survey request, step by step, as two *)
(* threads of the server's pool run them.  SQLite serialises the writes;   *)
(* the reads before them are made outside any transaction, and foreign     *)
(* keys are not enforced.                                                  *)
(***************************************************************************)
Done == [pc |-> "done"]

\* Line 139-141: look the survey up.
sub_lookup(survey_id, response) ==
  /\ sub.pc = "idle"
  /\ IF survey_id \notin DOMAIN surveys
     THEN sub' = Done /\ ret' = NotFound("submit_response")
     ELSE sub' = [pc |-> "found", survey_id |-> survey_id, response |-> response]
          /\ ret' = ret
  /\ UNCHANGED <<surveys, responses, now, del>>

\* Lines 142-148: insert the row and commit.
sub_write ==
  /\ sub.pc = "found"
  /\ LET id == NextId(responses) IN
     /\ responses' = Insert(responses, id, ResponseRow(sub.survey_id, sub.response, now))
     /\ sub' = [pc |-> "written", id |-> id, survey_id |-> sub.survey_id,
                response |-> sub.response]
  /\ now' = now + 1
  /\ UNCHANGED <<surveys, ret, del>>

\* Lines 149-175: refresh the row; the survey object expired with the commit,
\* so reading survey.correct_answers loads its row again, and raises
\* ObjectDeletedError when the row is gone.
sub_reply ==
  /\ sub.pc = "written"
  /\ ret' = IF sub.survey_id \notin DOMAIN surveys THEN ServerError("submit_response")
            ELSE SubmitReply(sub.id, responses[sub.id],
                             ScoreOf(surveys[sub.survey_id], sub.response.answers))
  /\ sub' = Done
  /\ UNCHANGED <<surveys, responses, now, del>>

\* Lines 179-181: look the survey up.
del_lookup(survey_id) ==
  /\ del.pc = "idle"
  /\ IF survey_id \notin DOMAIN surveys
     THEN del' = Done /\ ret' = NotFound("delete_survey")
     ELSE del' = [pc |-> "found", survey_id |-> survey_id] /\ ret' = ret
  /\ UNCHANGED <<surveys, responses, now, sub>>

\* Lines 182-184: the flush and the commit, taken as one write: load the
\* survey's responses, de-associate them, delete the row.
del_write ==
  /\ del.pc = "found"
  /\ responses' = Deassociate(responses, ChildrenOf(del.survey_id))
  /\ surveys' = Remove(surveys, del.survey_id)
  /\ ret' = Response200("delete_survey", [detail |-> "Survey deleted"])
  /\ del' = Done
  /\ UNCHANGED <<now, sub>>

NextConc ==
  \/ \E survey \in SurveyBodies :
       NextId(surveys) <= MaxSurveys /\ create_survey(survey)
  \/ \E id \in SurveyIds, response \in ResponseBodies : sub_lookup(id, response)
  \/ NextId(responses) <= MaxResponses /\ sub_write
  \/ sub_reply
  \/ \E id \in SurveyIds : del_lookup(id)
  \/ del_write

SpecConc == Init /\ [][NextConc]_vars

\* C10: once a submit_response and a concurrent delete_survey of the same
\* survey have both finished, no response row refers to a survey that does
\* not exist.  (Rows the delete de-associated are C1's matter.)
C10_NoOrphanResponse ==
  (sub.pc = "done" /\ del.pc = "done") =>
    \A i \in DOMAIN responses :
      responses[i].survey_id # NullId => responses[i].survey_id \in DOMAIN surveys

====
